---------------------------- MODULE Spec2Model ----------------------------
(***************************************************************************)
(* LockFreeSPSC<T, Capacity> (include/LockFreeSPSC.h): a fixed-capacity    *)
(* single-producer/single-consumer ring buffer, and the HeavyConcurrency-  *)
(* Test that drives it (LockFreeSPSC_Tests/QueueTests.cpp).                *)
(*                                                                         *)
(* Every access of an atomic cursor, the slot write of push and the slot   *)
(* read of pop are steps of their own, so the two threads interleave       *)
(* between any two of them.  An atomic load returns the latest value       *)
(* stored; the release/acquire pairs of the code make every slot access    *)
(* ordered with the cursor store that publishes it.                        *)
(*                                                                         *)
(* Variables whose names are not fields or locals of the code (pushed,     *)
(* popped, last, inv_live, seen, ...) are history variables: they record   *)
(* what the calls did and never influence the queue.                       *)
(***************************************************************************)
EXTENDS Integers, Sequences, FiniteSets

\* ---------------------------------------------------------------- bounds
\* Logical capacities explored: Capacity ranges over 1..MaxCapacity.
MaxCapacity == 2

\* Element values are 0..MaxValue (the element type T, cut to a small set).
MaxValue == 1

\* Calls of push the free-running producer makes (Spec).
MaxPushCalls == 5

\* Calls of push the producer makes when both threads also call empty() and
\* full() (SnapSpec).
MaxSnapPushCalls == 3

\* item_count of the test ranges over 1..MaxItemCount (TestSpec).
MaxItemCount == 6

Values == 0 .. MaxValue

\* What a slot of buffer_ holds before its first write: T buffer_[buffer_size]
\* is default-initialized, which for a scalar T leaves the value indeterminate.
Indeterminate == -1

Producer == "producer"
Consumer == "consumer"
Threads == {Producer, Consumer}

Other(t) == IF t = Producer THEN Consumer ELSE Producer

VARIABLES
    \* the queue object
    Capacity,        \* template parameter Capacity
    buffer_,         \* T buffer_[buffer_size]
    head_,           \* std::atomic<size_t> head_
    cached_tail_,    \* size_t cached_tail_      (consumer's shadow of tail_)
    tail_,           \* std::atomic<size_t> tail_
    cached_head_,    \* size_t cached_head_      (producer's shadow of head_)
    \* the two threads
    pc,              \* pc[t]: where thread t stands ("idle" between calls)
    current_tail,    \* push: const size_t current_tail
    next_tail,       \* push: const size_t next_tail
    push_item,       \* push: const T& item
    current_head,    \* pop: const size_t current_head
    pop_item,        \* pop: T item (<<>> until read)
    snap,            \* empty()/full(): snap[t].h, snap[t].t are the loaded
                     \* cursors (<<>> until loaded)
    \* the call each thread made last, and what it returned (the default
    \* FALSE or <<>> while it runs, and when the thread's last call was another)
    last,            \* last[t]: the call thread t runs or ran last
    push_ret,        \* what push returned
    pop_ret,         \* what pop returned: <<>> is std::nullopt
    snap_ret,        \* snap_ret[t]: what t's empty()/full() returned
    \* history
    pushed,          \* values of the pushes that stored tail_, in order
    popped,          \* values of the pops that stored head_, in order
    steps,           \* steps[t]: steps the running call of t has taken
    changed,         \* changed[t]: fields the running call of t has changed
    inv_live,        \* inv_live[t]: live items when t's call was invoked
    seen,            \* seen[t]: live counts there were during t's call
    pushCalls,       \* calls of push made by the free-running producer
    popInvoked,      \* whether pop was ever called
    \* HeavyConcurrencyTest
    item_count,      \* constexpr int item_count
    tpc,             \* tpc[t]: where the test's thread lambda stands
    i,               \* producer: int i
    producer_sum,    \* long long producer_sum
    items_received,  \* consumer: int items_received
    consumer_sum     \* long long consumer_sum

queueVars == <<Capacity, buffer_, head_, cached_tail_, tail_, cached_head_>>
pushLocals == <<current_tail, next_tail, push_item>>
popLocals == <<current_head, pop_item>>
retVars == <<push_ret, pop_ret, snap_ret>>
histVars == <<pushed, popped, pushCalls, popInvoked>>
callVars == <<pc, last, steps, changed, inv_live, seen>>
testVars == <<item_count, tpc, i, producer_sum, items_received, consumer_sum>>

vars == <<queueVars, pushLocals, popLocals, snap, retVars, histVars, callVars,
          testVars>>

\* ------------------------------------------------------------ the queue

\* static constexpr size_t buffer_size = Capacity + 1
buffer_size == Capacity + 1

\* A slip: the index is advanced without wrapping around.
next_index_no_wrap(current_idx) == current_idx + 1

\* A slip: the modulus is Capacity, not buffer_size.
next_index_mod_capacity(current_idx) == (current_idx + 1) % Capacity

next_index(current_idx) == (current_idx + 1) % buffer_size

\* The comparison of empty(), on the two loaded cursors.
EmptyOf(h, t) == h = t

\* A slip: full() compares the cursors as empty() does.
FullOfNoNext(h, t) == t = h

\* The comparison of full(), on the two loaded cursors.
FullOf(h, t) == next_index(t) = h

\* Live items: published by a tail_ store, not yet released by a head_ store.
Live == Len(pushed) - Len(popped)

FieldNames == {"head", "tail", "cached_head", "cached_tail", "buffer"}

\* The fields of the queue that the step being taken changes.
ChangedFields ==
    {f \in FieldNames :
        \/ f = "head" /\ head_' # head_
        \/ f = "tail" /\ tail_' # tail_
        \/ f = "cached_head" /\ cached_head_' # cached_head_
        \/ f = "cached_tail" /\ cached_tail_' # cached_tail_
        \/ f = "buffer" /\ buffer_' # buffer_}

\* Thread th starts the call op, which goes on at `first`: the first step of
\* the call, whose history starts afresh.
Invoke(th, op, first) ==
    /\ pc[th] = "idle"
    /\ pc' = [pc EXCEPT ![th] = first]
    /\ last' = [last EXCEPT ![th] = op]
    /\ steps' = [steps EXCEPT ![th] = 1]
    /\ changed' = [changed EXCEPT ![th] = ChangedFields]
    /\ inv_live' = [inv_live EXCEPT ![th] = Live]
    /\ seen' = [seen EXCEPT ![th] = {Live}]

\* Thread th takes one more step of its call and goes to `to` ("idle": the
\* call returns, and its history is dropped).  A step that stores a cursor
\* shows the other thread's running call a new live count.
Step(th, to) ==
    /\ pc' = [pc EXCEPT ![th] = to]
    /\ steps' = [steps EXCEPT ![th] = IF to = "idle" THEN 0 ELSE @ + 1]
    /\ changed' = [changed EXCEPT ![th] =
                      IF to = "idle" THEN {} ELSE @ \cup ChangedFields]
    /\ inv_live' = [inv_live EXCEPT ![th] = IF to = "idle" THEN 0 ELSE @]
    /\ seen' = [seen EXCEPT
                   ![th] = IF to = "idle" THEN {} ELSE @,
                   ![Other(th)] = IF pc[Other(th)] # "idle"
                                  THEN @ \cup {Len(pushed') - Len(popped')}
                                  ELSE @]
    /\ UNCHANGED last

\* ----------------------------------------------------------------- push

\* A slip: the item is stored in its slot before the queue is known not to
\* be full.
PushLoadTailWritesFirst(item) ==
    /\ current_tail' = tail_
    /\ next_tail' = next_index(tail_)
    /\ push_item' = item
    /\ buffer_' = [buffer_ EXCEPT ![tail_] = item]
    /\ push_ret' = FALSE
    /\ snap_ret' = [snap_ret EXCEPT ![Producer] = FALSE]
    /\ UNCHANGED <<Capacity, head_, cached_tail_, tail_, cached_head_>>
    /\ UNCHANGED <<popLocals, snap, pop_ret, pushed, popped, popInvoked>>
    /\ Invoke(Producer, "push",
              IF next_index(tail_) = cached_head_ THEN "push_refresh"
                                                  ELSE "push_write")

\* push, lines 55-61: the call, the relaxed load of tail_, next_index and
\* the cheap check against the cached copy (all on producer-owned data).
PushLoadTail(item) ==
    /\ current_tail' = tail_
    /\ next_tail' = next_index(tail_)
    /\ push_item' = item
    /\ push_ret' = FALSE
    /\ snap_ret' = [snap_ret EXCEPT ![Producer] = FALSE]
    /\ UNCHANGED <<queueVars, popLocals, snap, pop_ret, pushed, popped,
                   popInvoked>>
    /\ Invoke(Producer, "push",
              IF next_index(tail_) = cached_head_ THEN "push_refresh"
                                                  ELSE "push_write")

\* The slow path of push with the three ways it may go wrong: `reload` is
\* whether head_ is loaded again, `idx` the index compared with the refreshed
\* cache, `retry` whether a full queue makes push try again instead of
\* returning.
PushRefreshHeadAs(reload, idx, retry) ==
    /\ pc[Producer] = "push_refresh"
    /\ cached_head_' = IF reload THEN head_ ELSE cached_head_
    /\ UNCHANGED <<Capacity, buffer_, head_, cached_tail_, tail_>>
    /\ UNCHANGED <<popLocals, snap, pop_ret, snap_ret, histVars, testVars>>
    /\ IF idx = cached_head_'
       THEN IF retry
            THEN /\ UNCHANGED <<push_ret, pushLocals>>
                 /\ Step(Producer, "push_refresh")
            ELSE /\ push_ret' = FALSE
                 /\ current_tail' = 0
                 /\ next_tail' = 0
                 /\ push_item' = 0
                 /\ Step(Producer, "idle")
       ELSE /\ UNCHANGED <<push_ret, pushLocals>>
            /\ Step(Producer, "push_write")

\* A slip: the recheck compares current_tail, as if no slot were kept free.
PushRefreshHeadOffByOne == PushRefreshHeadAs(TRUE, current_tail, FALSE)

\* A slip: the slow path does not load head_ again.
PushRefreshHeadNoReload == PushRefreshHeadAs(FALSE, next_tail, FALSE)

\* A slip: push waits for a free slot instead of returning false.
PushRefreshHeadSpins == PushRefreshHeadAs(TRUE, next_tail, TRUE)

\* push, lines 64-70: refresh the cache from the atomic head_ (acquire);
\* still full: return false.
PushRefreshHead ==
    /\ pc[Producer] = "push_refresh"
    /\ cached_head_' = head_
    /\ UNCHANGED <<Capacity, buffer_, head_, cached_tail_, tail_>>
    /\ UNCHANGED <<popLocals, snap, pop_ret, snap_ret, histVars, testVars>>
    /\ IF next_tail = cached_head_'
       THEN /\ push_ret' = FALSE
            /\ current_tail' = 0
            /\ next_tail' = 0
            /\ push_item' = 0
            /\ Step(Producer, "idle")
       ELSE /\ UNCHANGED <<push_ret, pushLocals>>
            /\ Step(Producer, "push_write")

\* A slip: the item is written to the slot after the one that is free.
PushWriteSlotNextTail ==
    /\ pc[Producer] = "push_write"
    /\ buffer_' = [buffer_ EXCEPT ![next_tail] = push_item]
    /\ UNCHANGED <<Capacity, head_, cached_tail_, tail_, cached_head_>>
    /\ UNCHANGED <<pushLocals, popLocals, snap, retVars, histVars, testVars>>
    /\ Step(Producer, "push_store")

\* push, line 73: buffer_[current_tail] = item.
PushWriteSlot ==
    /\ pc[Producer] = "push_write"
    /\ buffer_' = [buffer_ EXCEPT ![current_tail] = push_item]
    /\ UNCHANGED <<Capacity, head_, cached_tail_, tail_, cached_head_>>
    /\ UNCHANGED <<pushLocals, popLocals, snap, retVars, histVars, testVars>>
    /\ Step(Producer, "push_store")

\* push, lines 74-75: the release store of tail_, and return true.
PushStoreTail ==
    /\ pc[Producer] = "push_store"
    /\ tail_' = next_tail
    /\ pushed' = Append(pushed, push_item)
    /\ push_ret' = TRUE
    /\ current_tail' = 0
    /\ next_tail' = 0
    /\ push_item' = 0
    /\ UNCHANGED <<Capacity, buffer_, head_, cached_tail_, cached_head_>>
    /\ UNCHANGED <<popLocals, snap, pop_ret, snap_ret, popped, pushCalls,
                   popInvoked, testVars>>
    /\ Step(Producer, "idle")

\* The steps of a push that follow its call.
PushStep ==
    \/ PushRefreshHead
    \/ PushWriteSlot
    \/ PushStoreTail

\* ------------------------------------------------------------------ pop

\* What a read of a slot holding x yields: a slot never written holds an
\* indeterminate value, and reading it may yield any value.
ReadOf(x) == IF x = Indeterminate THEN Values ELSE {x}

\* A slip: pop does not check for emptiness.
PopLoadHeadNoCheck ==
    /\ current_head' = head_
    /\ pop_item' = <<>>
    /\ popInvoked' = TRUE
    /\ pop_ret' = <<>>
    /\ snap_ret' = [snap_ret EXCEPT ![Consumer] = FALSE]
    /\ UNCHANGED <<queueVars, pushLocals, snap, push_ret, pushed, popped,
                   pushCalls>>
    /\ Invoke(Consumer, "pop", "pop_read")

\* pop, lines 79-84: the call, the relaxed load of head_ and the cheap check
\* against the cached copy (all on consumer-owned data).
PopLoadHead ==
    /\ current_head' = head_
    /\ pop_item' = <<>>
    /\ popInvoked' = TRUE
    /\ pop_ret' = <<>>
    /\ snap_ret' = [snap_ret EXCEPT ![Consumer] = FALSE]
    /\ UNCHANGED <<queueVars, pushLocals, snap, push_ret, pushed, popped,
                   pushCalls>>
    /\ Invoke(Consumer, "pop",
              IF head_ = cached_tail_ THEN "pop_refresh" ELSE "pop_read")

\* The slow path of pop with the two ways it may go wrong: `own` is whether
\* the load of tail_ refreshes the consumer's own shadow cached_tail_ (or
\* the producer's cached_head_), `recheck` whether emptiness is checked
\* again after the refresh.
PopRefreshTailAs(own, recheck) ==
    /\ pc[Consumer] = "pop_refresh"
    /\ cached_tail_' = IF own THEN tail_ ELSE cached_tail_
    /\ cached_head_' = IF own THEN cached_head_ ELSE tail_
    /\ UNCHANGED <<Capacity, buffer_, head_, tail_>>
    /\ UNCHANGED <<pushLocals, snap, push_ret, snap_ret, histVars, testVars>>
    /\ IF recheck /\ current_head = cached_tail_'
       THEN /\ pop_ret' = <<>>
            /\ current_head' = 0
            /\ pop_item' = <<>>
            /\ Step(Consumer, "idle")
       ELSE /\ UNCHANGED <<pop_ret, popLocals>>
            /\ Step(Consumer, "pop_read")

\* A slip: the refreshed cache is not compared again.
PopRefreshTailNoRecheck == PopRefreshTailAs(TRUE, FALSE)

\* A slip: the load of tail_ is stored in the other shadow, cached_head_.
PopRefreshTailWrongShadow == PopRefreshTailAs(FALSE, TRUE)

\* pop, lines 87-93: refresh the cache from the atomic tail_ (acquire);
\* still empty: return std::nullopt.
PopRefreshTail ==
    /\ pc[Consumer] = "pop_refresh"
    /\ cached_tail_' = tail_
    /\ UNCHANGED <<Capacity, buffer_, head_, tail_, cached_head_>>
    /\ UNCHANGED <<pushLocals, snap, push_ret, snap_ret, histVars, testVars>>
    /\ IF current_head = cached_tail_'
       THEN /\ pop_ret' = <<>>
            /\ current_head' = 0
            /\ pop_item' = <<>>
            /\ Step(Consumer, "idle")
       ELSE /\ UNCHANGED <<pop_ret, popLocals>>
            /\ Step(Consumer, "pop_read")

\* A slip: pop reads the slot after the one head_ names.
PopReadSlotNextHead ==
    /\ pc[Consumer] = "pop_read"
    /\ \E v \in ReadOf(buffer_[next_index(current_head)]) : pop_item' = <<v>>
    /\ UNCHANGED current_head
    /\ UNCHANGED <<queueVars, pushLocals, snap, retVars, histVars, testVars>>
    /\ Step(Consumer, "pop_store")

\* A slip: pop resets the slot it has read to a value-initialized T.
PopReadSlotClears ==
    /\ pc[Consumer] = "pop_read"
    /\ \E v \in ReadOf(buffer_[current_head]) : pop_item' = <<v>>
    /\ buffer_' = [buffer_ EXCEPT ![current_head] = 0]
    /\ UNCHANGED current_head
    /\ UNCHANGED <<Capacity, head_, cached_tail_, tail_, cached_head_>>
    /\ UNCHANGED <<pushLocals, snap, retVars, histVars, testVars>>
    /\ Step(Consumer, "pop_store")

\* pop, line 96: T item = buffer_[current_head].
PopReadSlot ==
    /\ pc[Consumer] = "pop_read"
    /\ \E v \in ReadOf(buffer_[current_head]) : pop_item' = <<v>>
    /\ UNCHANGED current_head
    /\ UNCHANGED <<queueVars, pushLocals, snap, retVars, histVars, testVars>>
    /\ Step(Consumer, "pop_store")

\* pop, lines 97-98: the release store of head_, and return item.
PopStoreHead ==
    /\ pc[Consumer] = "pop_store"
    /\ head_' = next_index(current_head)
    /\ popped' = Append(popped, pop_item[1])
    /\ pop_ret' = pop_item
    /\ current_head' = 0
    /\ pop_item' = <<>>
    /\ UNCHANGED <<Capacity, buffer_, cached_tail_, tail_, cached_head_>>
    /\ UNCHANGED <<pushLocals, snap, push_ret, snap_ret, pushed, pushCalls,
                   popInvoked, testVars>>
    /\ Step(Consumer, "idle")

\* The steps of a pop that follow its call.
PopStep ==
    \/ PopRefreshTail
    \/ PopReadSlot
    \/ PopStoreHead

\* ------------------------------------------------------ empty() / full()

NotLoaded == [h |-> <<>>, t |-> <<>>]

\* The first of the two acquire loads of empty() (kind = "empty", lines
\* 102-105) or full() (kind = "full", lines 108-111), called by thread th.
\* The order in which the operands of == are evaluated is unspecified, so
\* either cursor may be the one loaded first.
SnapFirstLoad(th, kind, first) ==
    /\ snap' = [snap EXCEPT ![th] =
                   IF first = "head" THEN [h |-> <<head_>>, t |-> <<>>]
                                     ELSE [h |-> <<>>, t |-> <<tail_>>]]
    /\ push_ret' = IF th = Producer THEN FALSE ELSE push_ret
    /\ pop_ret' = IF th = Consumer THEN <<>> ELSE pop_ret
    /\ snap_ret' = [snap_ret EXCEPT ![th] = FALSE]
    /\ UNCHANGED <<queueVars, pushLocals, popLocals, histVars, testVars>>
    /\ Invoke(th, kind, "snap_second")

\* The second load of empty() or full(), the comparison and the return.
SnapSecondLoad(th) ==
    /\ pc[th] = "snap_second"
    /\ LET h == IF snap[th].h = <<>> THEN head_ ELSE snap[th].h[1]
           t == IF snap[th].t = <<>> THEN tail_ ELSE snap[th].t[1]
       IN  snap_ret' = [snap_ret EXCEPT ![th] =
                           IF last[th] = "empty" THEN EmptyOf(h, t)
                                                 ELSE FullOf(h, t)]
    /\ snap' = [snap EXCEPT ![th] = NotLoaded]
    /\ UNCHANGED <<queueVars, pushLocals, popLocals, push_ret, pop_ret,
                   histVars, testVars>>
    /\ Step(th, "idle")

\* Either thread calls empty() or full() between its calls of push or pop.
SnapCall ==
    \E th \in Threads, kind \in {"empty", "full"}, first \in {"head", "tail"} :
        SnapFirstLoad(th, kind, first)

SnapStep == \E th \in Threads : SnapSecondLoad(th)

\* --------------------------------------------------------- construction

\* A queue of capacity C right after construction: the cursors and their
\* shadows are 0 (default member initializers); the slots of buffer_ are
\* default-initialized, so each holds an indeterminate value.
Constructed(C) ==
    /\ Capacity = C
    /\ buffer_ = [ix \in 0 .. C |-> Indeterminate]
    /\ head_ = 0
    /\ cached_tail_ = 0
    /\ tail_ = 0
    /\ cached_head_ = 0

\* No call was made yet.
NoCallYet ==
    /\ pc = [t \in Threads |-> "idle"]
    /\ current_tail = 0
    /\ next_tail = 0
    /\ push_item = 0
    /\ current_head = 0
    /\ pop_item = <<>>
    /\ snap = [t \in Threads |-> NotLoaded]
    /\ last = [t \in Threads |-> "none"]
    /\ push_ret = FALSE
    /\ pop_ret = <<>>
    /\ snap_ret = [t \in Threads |-> FALSE]
    /\ pushed = <<>>
    /\ popped = <<>>
    /\ steps = [t \in Threads |-> 0]
    /\ changed = [t \in Threads |-> {}]
    /\ inv_live = [t \in Threads |-> 0]
    /\ seen = [t \in Threads |-> {}]
    /\ pushCalls = 0
    /\ popInvoked = FALSE

\* ------------------------------------------- free-running producer/consumer

\* The producer thread calls push with any value, at most `limit` times.
CallsPush(limit) ==
    /\ pushCalls < limit
    /\ pushCalls' = pushCalls + 1
    /\ \E item \in Values : PushLoadTail(item)
    /\ UNCHANGED testVars

ProducerCallsPush == CallsPush(MaxPushCalls)

\* The consumer thread calls pop.
ConsumerCallsPop ==
    /\ PopLoadHead
    /\ UNCHANGED testVars

TestOff ==
    /\ item_count = 0
    /\ tpc = [t \in Threads |-> "off"]
    /\ i = 0
    /\ producer_sum = 0
    /\ items_received = 0
    /\ consumer_sum = 0

Init ==
    /\ \E C \in 1 .. MaxCapacity : Constructed(C)
    /\ NoCallYet
    /\ TestOff

\* One producer thread calling push and one consumer thread calling pop, in
\* any interleaving of their steps.
Next ==
    \/ ProducerCallsPush
    \/ PushStep
    \/ ConsumerCallsPop
    \/ PopStep

Spec == Init /\ [][Next]_vars

\* The same two threads, each also calling empty() and full() between its
\* calls of push or pop.
SnapProducerCallsPush == CallsPush(MaxSnapPushCalls)

SnapNext ==
    \/ SnapProducerCallsPush
    \/ PushStep
    \/ ConsumerCallsPop
    \/ PopStep
    \/ SnapCall
    \/ SnapStep

SnapSpec == Init /\ [][SnapNext]_vars

\* -------------------------------------------------- HeavyConcurrencyTest

\* QueueTests.cpp, line 23: the producer lambda calls queue.push(i), while
\* i < item_count (line 21).
TestPushCall ==
    /\ tpc[Producer] = "loop"
    /\ i < item_count
    /\ PushLoadTail(i)
    /\ tpc' = [tpc EXCEPT ![Producer] = "called"]
    /\ UNCHANGED <<item_count, i, producer_sum, items_received, consumer_sum,
                   pushCalls>>

\* QueueTests.cpp, lines 23-27: push returned.  false: yield and call again
\* with the same i; true: producer_sum += i and ++i.
TestPushReturn ==
    /\ tpc[Producer] = "called"
    /\ pc[Producer] = "idle"
    /\ IF push_ret
       THEN /\ producer_sum' = producer_sum + i
            /\ i' = i + 1
       ELSE UNCHANGED <<producer_sum, i>>
    /\ tpc' = [tpc EXCEPT ![Producer] = "loop"]
    /\ UNCHANGED <<item_count, items_received, consumer_sum>>
    /\ UNCHANGED <<queueVars, pushLocals, popLocals, snap, retVars, histVars,
                   callVars>>

\* QueueTests.cpp, lines 21 and 29: i reached item_count, the lambda ends.
TestProducerExit ==
    /\ tpc[Producer] = "loop"
    /\ ~(i < item_count)
    /\ tpc' = [tpc EXCEPT ![Producer] = "done"]
    /\ UNCHANGED <<item_count, i, producer_sum, items_received, consumer_sum>>
    /\ UNCHANGED <<queueVars, pushLocals, popLocals, snap, retVars, histVars,
                   callVars>>

\* QueueTests.cpp, line 35: the consumer lambda calls queue.pop(), while
\* items_received < item_count (line 34).
TestPopCall ==
    /\ tpc[Consumer] = "loop"
    /\ items_received < item_count
    /\ PopLoadHead
    /\ tpc' = [tpc EXCEPT ![Consumer] = "called"]
    /\ UNCHANGED <<item_count, i, producer_sum, items_received, consumer_sum>>

\* QueueTests.cpp, lines 35-41: pop returned.  A value: consumer_sum += *val
\* and items_received++; std::nullopt: yield.
TestPopReturn ==
    /\ tpc[Consumer] = "called"
    /\ pc[Consumer] = "idle"
    /\ IF pop_ret # <<>>
       THEN /\ consumer_sum' = consumer_sum + pop_ret[1]
            /\ items_received' = items_received + 1
       ELSE UNCHANGED <<consumer_sum, items_received>>
    /\ tpc' = [tpc EXCEPT ![Consumer] = "loop"]
    /\ UNCHANGED <<item_count, i, producer_sum>>
    /\ UNCHANGED <<queueVars, pushLocals, popLocals, snap, retVars, histVars,
                   callVars>>

\* QueueTests.cpp, lines 34 and 43: items_received reached item_count.
TestConsumerExit ==
    /\ tpc[Consumer] = "loop"
    /\ ~(items_received < item_count)
    /\ tpc' = [tpc EXCEPT ![Consumer] = "done"]
    /\ UNCHANGED <<item_count, i, producer_sum, items_received, consumer_sum>>
    /\ UNCHANGED <<queueVars, pushLocals, popLocals, snap, retVars, histVars,
                   callVars>>

\* QueueTests.cpp, lines 46-47: both threads were joined.
TestJoined == \A th \in Threads : tpc[th] = "done"

\* QueueTests.cpp, lines 11-43: the queue, the sums and the two threads.
TestInit ==
    /\ \E C \in 1 .. MaxCapacity : Constructed(C)
    /\ NoCallYet
    /\ item_count \in 1 .. MaxItemCount
    /\ tpc = [t \in Threads |-> "loop"]
    /\ i = 0
    /\ producer_sum = 0
    /\ items_received = 0
    /\ consumer_sum = 0

TestNext ==
    \/ TestPushCall
    \/ PushStep
    \/ TestPushReturn
    \/ TestProducerExit
    \/ TestPopCall
    \/ PopStep
    \/ TestPopReturn
    \/ TestConsumerExit

TestSpec == TestInit /\ [][TestNext]_vars

\* ------------------------------------------------------------ properties

IsPrefix(s, t) ==
    /\ Len(s) <= Len(t)
    /\ \A k \in 1 .. Len(s) : s[k] = t[k]

\* This step is the return of thread th's call of op.
Returns(th, op) == pc[th] # "idle" /\ last[th] = op /\ pc'[th] = "idle"

\* Thread th's last call was op, and it has returned.
Returned(th, op) == pc[th] = "idle" /\ last[th] = op

\* Where a call stands: the number of shared-memory steps the code takes
\* before it (the load of the thread's own cursor being the first).
Position(p) ==
    CASE p \in {"push_refresh", "pop_refresh", "snap_second"} -> 1
      [] p \in {"push_write", "pop_read"} -> 2
      [] p \in {"push_store", "pop_store"} -> 3

\* C1: the values returned by successful pops are always a prefix of the
\* values accepted by successful pushes (FIFO, nothing lost, nothing twice),
\* and once the queue is drained (head_ = tail_) they are all of them, for
\* every capacity and however often the cursors have wrapped around.
C1_FifoNoLossNoDup ==
    /\ IsPrefix(popped, pushed)
    /\ head_ = tail_ => popped = pushed

\* Both cursors went around the backing store twice, and all the values, not
\* all equal, came out in order.
C1_Witness ==
    /\ Len(popped) >= 2 * buffer_size
    /\ head_ = 0
    /\ popped = pushed
    /\ \E j, k \in 1 .. Len(popped) : popped[j] # popped[k]

\* C2: once both threads of the test have finished, the consumer's sum
\* equals the producer's sum and both are item_count * (item_count - 1) / 2.
C2_SumInvariant ==
    TestJoined =>
        /\ consumer_sum = producer_sum
        /\ consumer_sum = (item_count * (item_count - 1)) \div 2

\* The test ended with more items than twice the slots of the backing store.
C2_Witness ==
    /\ TestJoined
    /\ item_count > 2 * buffer_size
    /\ consumer_sum > 0

\* C3: while no pop was ever called on a fresh queue, the first Capacity
\* calls of push return true and every later one false; and a push invoked
\* with Capacity live items, during which no pop releases a slot, returns
\* false.
C3_CapacityBoundary ==
    [][Returns(Producer, "push") =>
          /\ ~popInvoked => (push_ret' <=> pushCalls <= Capacity)
          /\ inv_live[Producer] = Capacity /\ seen[Producer] = {Capacity}
                 => push_ret' = FALSE]_vars

\* The (Capacity+1)-th push on a fresh queue, with no pop, returned false.
C3_Witness ==
    /\ Returned(Producer, "push")
    /\ ~push_ret
    /\ ~popInvoked
    /\ pushCalls = Capacity + 1
    /\ Len(pushed) = Capacity

\* C4: the number of live items is (tail_ - head_) mod (Capacity + 1) and
\* lies in 0 .. Capacity.
C4_ItemCount ==
    /\ Live = (tail_ - head_) % buffer_size
    /\ Live \in 0 .. Capacity

\* The queue is full with tail_ wrapped around below head_.
C4_Witness ==
    /\ Capacity >= 2
    /\ Live = Capacity
    /\ tail_ < head_

\* C5: a pop invoked on an empty queue (fresh, or drained), during which no
\* push publishes an item, returns std::nullopt.
C5_EmptyBoundary ==
    [][Returns(Consumer, "pop")
          /\ inv_live[Consumer] = 0 /\ seen[Consumer] = {0}
          => pop_ret' = <<>>]_vars

\* A pop on a drained queue returned std::nullopt, though the slot at head_
\* still holds a value returned before.
C5_Witness ==
    /\ Returned(Consumer, "pop")
    /\ pop_ret = <<>>
    /\ Len(popped) >= 1
    /\ head_ = tail_
    /\ buffer_[head_] \in Values

\* C6: no step of a push that returns false changes head_, tail_,
\* cached_tail_, cached_head_ or a slot of buffer_.
C6_FailedPushChangesNothing ==
    [][Returns(Producer, "push") /\ push_ret' = FALSE
          => changed[Producer] \cup ChangedFields = {}]_vars

\* A push returned false after items were popped (so on the slow path, and
\* with cursors that have moved).
C6_Witness ==
    /\ Returned(Producer, "push")
    /\ ~push_ret
    /\ Len(popped) >= 1
    /\ cached_head_ # 0

\* C7: no step of a pop that returns std::nullopt changes head_, tail_,
\* cached_head_, cached_tail_ or a slot of buffer_.
C7_FailedPopChangesNothing ==
    [][Returns(Consumer, "pop") /\ pop_ret' = <<>>
          => changed[Consumer] \cup ChangedFields = {}]_vars

\* A pop returned std::nullopt after items were popped.
C7_Witness ==
    /\ Returned(Consumer, "pop")
    /\ pop_ret = <<>>
    /\ Len(popped) >= 1
    /\ cached_tail_ # 0

\* C8: a push invoked while the queue holds fewer than Capacity items
\* returns true (also when cached_head_ is stale and says full), and a call
\* of full() during which the queue never holds Capacity items returns false.
C8_PushRecovers ==
    [][/\ Returns(Producer, "push") /\ inv_live[Producer] < Capacity
              => push_ret' = TRUE
       /\ \A th \in Threads :
              Returns(th, "full") /\ Capacity \notin seen[th]
                  => snap_ret'[th] = FALSE]_vars

\* A push had returned false, an item was popped, full() then returned false
\* to the consumer and the next push returned true.
C8_Witness ==
    /\ Returned(Producer, "push")
    /\ push_ret
    /\ pushCalls > Len(pushed)
    /\ Len(popped) >= 1
    /\ Returned(Consumer, "full")
    /\ ~snap_ret[Consumer]

\* C9: a running push or pop has taken no more steps than the code has
\* before the point it stands at (so it returns with its fourth step at the
\* latest, never going back), and its next step can be taken whatever state
\* the other thread is in, a call stopped midway included.
C9_NonBlocking ==
    /\ pc[Producer] # "idle" =>
           steps[Producer] <= Position(pc[Producer]) /\ ENABLED PushStep
    /\ pc[Consumer] # "idle" =>
           steps[Consumer] <= Position(pc[Consumer]) /\ ENABLED PopStep

\* Both calls took the slow path and stand before their cursor store.
C9_Witness ==
    /\ pc[Producer] = "push_store"
    /\ steps[Producer] = 3
    /\ pc[Consumer] = "pop_store"
    /\ steps[Consumer] = 3

\* C10: no state is both empty (head_ = tail_) and full (next_index(tail_)
\* = head_); and on a single-slot queue the values are popped in the order
\* they were pushed.
C10_EmptyFullExclusive ==
    /\ ~(EmptyOf(head_, tail_) /\ FullOf(head_, tail_))
    /\ Capacity = 1 => IsPrefix(popped, pushed)

\* On a single-slot queue, after a push, a pop and another push, full()
\* returned true to the producer and empty() false to the consumer.
C10_Witness ==
    /\ Capacity = 1
    /\ Len(popped) >= 1
    /\ Live = 1
    /\ Returned(Producer, "full")
    /\ snap_ret[Producer]
    /\ Returned(Consumer, "empty")
    /\ ~snap_ret[Consumer]

\* C11: what empty() (resp. full()) returns to the producer or the consumer
\* thread is what the queue was, empty or not (resp. full or not), at some
\* instant between the call and its return: some live count there was
\* during the call is 0 (resp. Capacity) exactly if the call returns true.
C11_SnapshotPointInTime ==
    [][\A th \in Threads :
          /\ Returns(th, "empty") =>
                 \E n \in seen[th] : (n = 0) <=> snap_ret'[th]
          /\ Returns(th, "full") =>
                 \E n \in seen[th] : (n = Capacity) <=> snap_ret'[th]]_vars

\* empty() returned true to the consumer although an item was published
\* during the call: the answer was stale when it was returned.
C11_Witness ==
    /\ Returned(Consumer, "empty")
    /\ snap_ret[Consumer]
    /\ Live >= 1

\* ------------------------------------------------ any template argument

\* The class template takes any size_t as Capacity: nothing in the header
\* (no static_assert, no constraint) refuses Capacity = 0, for which
\* buffer_size is 1.
AnyCapacityInit ==
    /\ \E C \in 0 .. MaxCapacity : Constructed(C)
    /\ NoCallYet
    /\ TestOff

\* The two threads on a queue instantiated with any Capacity.
AnyCapacitySpec == AnyCapacityInit /\ [][Next]_vars

\* C12: a queue of logical capacity 0 cannot be created: every queue on
\* which push, pop, empty or full can be called has Capacity >= 1, hence a
\* backing store of at least 2 slots.
C12_ZeroCapacityRejected ==
    (\E th \in Threads : last[th] # "none") =>
        /\ Capacity >= 1
        /\ buffer_size >= 2

\* ------------------------------------------- the test, scheduled fairly

\* QueueTests.cpp, lines 20-29: the steps of the producer thread.
ProducerThread ==
    \/ TestPushCall
    \/ PushStep
    \/ TestPushReturn
    \/ TestProducerExit

\* QueueTests.cpp, lines 32-43: the steps of the consumer thread.
ConsumerThread ==
    \/ TestPopCall
    \/ PopStep
    \/ TestPopReturn
    \/ TestConsumerExit

\* The test with both std::threads scheduled again and again: a thread that
\* can take a step (std::this_thread::yield() gives way, it does not stop
\* the thread) eventually takes one.
FairTestSpec ==
    /\ TestInit
    /\ [][TestNext]_vars
    /\ WF_vars(ProducerThread)
    /\ WF_vars(ConsumerThread)

\* C13: with both threads weakly fair, both retry loops of the test end:
\* eventually both threads have finished, with every one of the item_count
\* accepted items popped.
C13_RetryLoopsTerminate ==
    <>(TestJoined /\ Len(pushed) = item_count /\ popped = pushed)

\* The test ended on the single-slot queue with five items or more, so
\* after pushes that found the queue full and pops that found it empty.
C13_Witness ==
    /\ TestJoined
    /\ Capacity = 1
    /\ item_count >= 5
    /\ popped = pushed

\* The slots that hold a published item not yet released by a head_ store.
LiveSlots == {(head_ + k) % buffer_size : k \in 0 .. Live - 1}

\* The producer owns the slot current_tail: push is about to write it, or has
\* written it and not yet stored tail_.
ProducerAtSlot == pc[Producer] \in {"push_write", "push_store"}

\* The consumer passed the emptiness check for the slot current_head: pop is
\* about to read it, or has read it and not yet stored head_.
ConsumerAtSlot == pc[Consumer] \in {"pop_read", "pop_store"}

\* The consumer is anywhere between its load of head_ and its store of the
\* next head_, the emptiness check included.
ConsumerLoadedHead == pc[Consumer] \in {"pop_refresh", "pop_read", "pop_store"}

\* C14 as stated: the producer is never at the write of storage[i] while the
\* consumer is between loading head_ = i and storing the next head_.
C14_AsStated ==
    ~(ProducerAtSlot /\ ConsumerLoadedHead /\ current_tail = current_head)

\* C14, amended: the producer is never at the write of storage[i] while the
\* consumer is between finding an item available at head_ = i (its
\* emptiness check passed) and storing the next head_; the producer never
\* writes a slot that holds a published item whose pop has not yet stored
\* the new head_; and the slot the consumer reads holds the oldest
\* published item, written before the tail_ it observed was stored.
C14_SlotOwnership ==
    /\ ~(ProducerAtSlot /\ ConsumerAtSlot /\ current_tail = current_head)
    /\ ProducerAtSlot => current_tail \notin LiveSlots
    /\ ConsumerAtSlot =>
           /\ current_head \in LiveSlots
           /\ buffer_[current_head] = pushed[Len(popped) + 1]

\* The producer stands at the write of one slot while the consumer stands at
\* the read of another, after the cursors have wrapped.
C14_Witness ==
    /\ pc[Producer] = "push_write"
    /\ pc[Consumer] = "pop_read"
    /\ Len(popped) >= buffer_size
    /\ current_tail # current_head

\* C15: a push returns false only from the step that loads head_, and at
\* that instant the queue holds exactly Capacity live items, that is
\* next_index(tail_) = head_; a stale cached_head_ alone never does it.
C15_PushFalseOnlyWhenFull ==
    [][Returns(Producer, "push") /\ push_ret' = FALSE =>
          /\ pc[Producer] = "push_refresh"
          /\ cached_head_' = head_
          /\ Live = Capacity
          /\ next_index(tail_) = head_]_vars

\* A push returned false on a full queue whose cursors have both wrapped.
C15_Witness ==
    /\ Returned(Producer, "push")
    /\ ~push_ret
    /\ Live = Capacity
    /\ Len(popped) >= buffer_size

\* C16: a pop returns std::nullopt only from the step that loads tail_, and
\* at that instant the queue holds no live item, that is head_ = tail_; a
\* stale cached_tail_ alone never does it.
C16_PopAbsentOnlyWhenEmpty ==
    [][Returns(Consumer, "pop") /\ pop_ret' = <<>> =>
          /\ pc[Consumer] = "pop_refresh"
          /\ cached_tail_' = tail_
          /\ Live = 0
          /\ head_ = tail_]_vars

\* A pop returned std::nullopt on a queue drained after its cursors wrapped.
C16_Witness ==
    /\ Returned(Consumer, "pop")
    /\ pop_ret = <<>>
    /\ Live = 0
    /\ Len(popped) >= buffer_size

\* C17: a pop invoked while the queue holds a live item (some push has
\* stored its tail_ and the item was not popped yet) returns a value, also
\* when cached_tail_ is stale and still equals head_.
C17_PublishedItemNotMissed ==
    [][Returns(Consumer, "pop") /\ inv_live[Consumer] >= 1
          => pop_ret' # <<>>]_vars

\* A pop invoked on a non-empty queue with a stale cached_tail_, equal to
\* head_, has taken the slow path and stands at the read of its slot.
C17_Witness ==
    /\ pc[Consumer] = "pop_read"
    /\ steps[Consumer] = 2
    /\ inv_live[Consumer] >= 1

\* The thread th takes a step of a call of op (its first step included).
StepOf(th, op) == pc'[th] # pc[th] /\ last'[th] = op

\* C18: every step of push leaves head_ and cached_tail_ unchanged; every
\* step of pop leaves tail_, cached_head_ and every slot of buffer_ unchanged
\* (pop does not clear the slot it reads); no step of empty() or full()
\* changes any field.  So tail_ and cached_head_ change only in steps of the
\* producer thread, head_ and cached_tail_ only in steps of the consumer.
C18_SingleWriterPartition ==
    [][/\ \A th \in Threads :
            /\ StepOf(th, "push") =>
                  th = Producer /\ UNCHANGED <<head_, cached_tail_>>
            /\ StepOf(th, "pop") =>
                  th = Consumer /\ UNCHANGED <<tail_, cached_head_, buffer_>>
            /\ StepOf(th, "empty") \/ StepOf(th, "full") =>
                  UNCHANGED queueVars
       /\ tail_' # tail_ \/ cached_head_' # cached_head_ =>
             pc'[Producer] # pc[Producer] /\ pc'[Consumer] = pc[Consumer]
       /\ head_' # head_ \/ cached_tail_' # cached_tail_ =>
             pc'[Consumer] # pc[Consumer] /\ pc'[Producer] = pc[Producer]
      ]_vars

\* A pop has returned an item and the slot it was read from still holds it,
\* both shadows have been refreshed, and the producer has called full().
C18_Witness ==
    /\ Returned(Consumer, "pop")
    /\ pop_ret # <<>>
    /\ buffer_[(head_ + Capacity) % buffer_size] = pop_ret[1]
    /\ Len(popped) >= 2
    /\ cached_head_ # 0
    /\ cached_tail_ # 0
    /\ Returned(Producer, "full")

\* The indices of the slots of buffer_.
SlotIndices == 0 .. Capacity

\* The successor of index ix in the ring of buffer_size slots.
RingSucc(ix) == IF ix = Capacity THEN 0 ELSE ix + 1

\* C19: head_, tail_, cached_head_ and cached_tail_ are always within
\* 0 .. Capacity, below buffer_size; every change of a cursor takes it from
\* ix to (ix + 1) mod buffer_size, from Capacity to 0; and the slot a push
\* writes or a pop reads is a slot of buffer_.
C19_CursorBounds ==
    [][/\ {head_, tail_, cached_head_, cached_tail_} \subseteq SlotIndices
       /\ {head_', tail_', cached_head_', cached_tail_'} \subseteq SlotIndices
       /\ tail_' # tail_ =>
             tail_' = RingSucc(tail_) /\ tail_' = (tail_ + 1) % (Capacity + 1)
       /\ head_' # head_ =>
             head_' = RingSucc(head_) /\ head_' = (head_ + 1) % (Capacity + 1)
       /\ pc[Producer] = "push_write" => current_tail \in DOMAIN buffer_
       /\ pc[Consumer] = "pop_read" => current_head \in DOMAIN buffer_
       /\ DOMAIN buffer_' = SlotIndices
      ]_vars

\* Both cursors have advanced from index Capacity to 0, and the producer's
\* shadow holds the index Capacity it loaded from head_ before.
C19_Witness ==
    /\ Len(pushed) >= buffer_size
    /\ Len(popped) >= buffer_size
    /\ tail_ = 0
    /\ head_ = 0
    /\ cached_head_ = Capacity

\* The distance from index a forward to index b in the ring of buffer_.
RingDist(a, b) == (b - a) % buffer_size

\* push took the fast path (no load of head_) and stands at its slot write.
PushOnFastPath == pc[Producer] = "push_write" /\ steps[Producer] = 1

\* pop took the fast path (no load of tail_) and stands at its slot read.
PopOnFastPath == pc[Consumer] = "pop_read" /\ steps[Consumer] = 1

\* C20: the shadows are conservative: the distance from cached_head_ to
\* tail_ is at least that from head_ to tail_, and the distance from head_
\* to cached_tail_ at most that from head_ to tail_.  So when push takes the
\* fast path the slot buffer_[tail_] is free (the queue is not full and the
\* slot holds no live item), and when pop takes the fast path buffer_[head_]
\* holds the oldest published item not yet consumed.
C20_ShadowsConservative ==
    /\ RingDist(cached_head_, tail_) >= RingDist(head_, tail_)
    /\ RingDist(head_, cached_tail_) <= RingDist(head_, tail_)
    /\ RingDist(head_, tail_) = Live
    /\ PushOnFastPath =>
          /\ current_tail = tail_
          /\ next_tail # cached_head_
          /\ Live < Capacity
          /\ tail_ \notin LiveSlots
    /\ PopOnFastPath =>
          /\ current_head = head_
          /\ current_head # cached_tail_
          /\ Live >= 1
          /\ head_ \in LiveSlots
          /\ buffer_[head_] = pushed[Len(popped) + 1]

\* push is on its fast path while cached_head_ is stale: the consumer has
\* released slots since the producer last loaded head_.
C20_Witness ==
    /\ PushOnFastPath
    /\ cached_head_ # head_
    /\ Len(popped) >= 1
    /\ Len(pushed) >= buffer_size

\* pop is on its fast path while cached_tail_ is stale: the producer has
\* published items since the consumer last loaded tail_.
C20_PopFastPathStale ==
    /\ PopOnFastPath
    /\ cached_tail_ # tail_
    /\ Len(popped) >= 1

====
